---- MODULE Spec2Model ----
(***************************************************************************)
(* A model of text_statistics.py: the syllable estimator (syllable_count), *)
(* the counting utilities (_count_words, _count_sentences, _count_letters, *)
(* _count_syllables, _count_complex_words) and the six readability         *)
(* formulas, as far as their divisions are concerned.                      *)
(*                                                                         *)
(* A Python str is a sequence of one-character strings.  Decimal values    *)
(* that hold whole numbers are modelled as integers; the ratio returned by *)
(* _count_complex_words is kept as numerator and denominator.  The decimal *)
(* score of a formula is not modelled: a formula call ends either with a   *)
(* score or with a ZeroDivisionError, and the model keeps which.  Strings  *)
(* hold ASCII letters, digits and the punctuation listed below.            *)
(***************************************************************************)
EXTENDS Integers, Sequences, FiniteSets, TLC

(***************************************************************************)
(* Characters                                                              *)
(***************************************************************************)
LowerSeq == <<"a","b","c","d","e","f","g","h","i","j","k","l","m",
              "n","o","p","q","r","s","t","u","v","w","x","y","z">>
UpperSeq == <<"A","B","C","D","E","F","G","H","I","J","K","L","M",
              "N","O","P","Q","R","S","T","U","V","W","X","Y","Z">>
LowerLetters ==
    {"a","b","c","d","e","f","g","h","i","j","k","l","m",
     "n","o","p","q","r","s","t","u","v","w","x","y","z"}
UpperLetters ==
    {"A","B","C","D","E","F","G","H","I","J","K","L","M",
     "N","O","P","Q","R","S","T","U","V","W","X","Y","Z"}
Digits == {"0","1","2","3","4","5","6","7","8","9"}
Punctuation == {" ", ".", "!", "?", ",", "-", "'", ";", ":"}
\* every character a modelled string may hold
AllChars == LowerLetters \cup UpperLetters \cup Digits \cup Punctuation

\* str.lower() on one character
lowerChar(c) ==
    IF \E i \in DOMAIN UpperSeq : UpperSeq[i] = c
    THEN LowerSeq[CHOOSE i \in DOMAIN UpperSeq : UpperSeq[i] = c]
    ELSE c

\* str.lower()
lower(s) == [i \in DOMAIN s |-> lowerChar(s[i])]

Min(S) == CHOOSE x \in S : \A y \in S : x <= y
Max(S) == CHOOSE x \in S : \A y \in S : x >= y

RECURSIVE Pick(_, _)
\* the characters of s at the positions K, in order
Pick(s, K) ==
    IF K = {} THEN <<>>
    ELSE LET k == Min(K) IN <<s[k]>> \o Pick(s, K \ {k})

(***************************************************************************)
(* Regular expressions (module re), as far as the patterns of the source   *)
(* use them.  A pattern is a sequence of atoms, each a character class     *)
(* with a repetition range, with optional ^ and $ anchors.  A regular      *)
(* expression is a set of patterns (its alternatives).                     *)
(***************************************************************************)
\* x : exactly one character of the class S
One(S) == [cls |-> S, lo |-> 1, bounded |-> TRUE, hi |-> 1]
\* x? : at most one
Opt(S) == [cls |-> S, lo |-> 0, bounded |-> TRUE, hi |-> 1]
\* x{n} : exactly n
Times(S, n) == [cls |-> S, lo |-> n, bounded |-> TRUE, hi |-> n]
\* x{n,} and x+ : n or more
AtLeast(S, n) == [cls |-> S, lo |-> n, bounded |-> FALSE, hi |-> n]
\* [^...]
Not(S) == {c \in AllChars : c \notin S}
\* . : any character but a newline (no modelled string holds one)
Dot == AllChars
\* a literal string
Lit(str) == [i \in DOMAIN str |-> One({str[i]})]

Pat(atoms) == [bol |-> FALSE, atoms |-> atoms, eol |-> FALSE]
\* ^...
AtStart(atoms) == [bol |-> TRUE, atoms |-> atoms, eol |-> FALSE]
\* ...$ : no modelled string ends in a newline, so $ is the end of the string
AtEnd(atoms) == [bol |-> FALSE, atoms |-> atoms, eol |-> TRUE]

RECURSIVE MatchEnds(_, _, _, _)
\* the positions j such that atoms k.. match s[i..j-1]
MatchEnds(atoms, k, s, i) ==
    IF k > Len(atoms) THEN {i}
    ELSE LET a == atoms[k]
             Fits(n) == \A m \in 0..(n - 1) : s[i + m] \in a.cls
             most == IF a.bounded /\ a.hi < Len(s) - i + 1
                     THEN a.hi ELSE Len(s) - i + 1
         IN  UNION { MatchEnds(atoms, k + 1, s, i + n) :
                       n \in {n \in a.lo..most : Fits(n)} }

\* the ends of the matches of pattern p that start at position i of s
Ends(p, s, i) ==
    IF p.bol /\ i # 1 THEN {}
    ELSE {j \in MatchEnds(p.atoms, 1, s, i) : p.eol => j = Len(s) + 1}

\* regex.search(s) is not None
search(re, s) ==
    \E p \in re : \E i \in 1..(Len(s) + 1) : Ends(p, s, i) # {}

RECURSIVE matches(_, _, _)
\* the non-overlapping matches <<start, end>> of p in s from position i on,
\* leftmost first and each as long as it can be
matches(p, s, i) ==
    IF i > Len(s) THEN <<>>
    ELSE LET E == Ends(p, s, i) \ {i}
         IN  IF E = {} THEN matches(p, s, i + 1)
             ELSE <<<<i, Max(E)>>>> \o matches(p, s, Max(E))

\* len(regex.findall(s))
findall(p, s) == Len(matches(p, s, 1))

\* regex.sub('', s)
sub(p, s) ==
    LET ms == matches(p, s, 1)
        inMatch(k) == \E n \in DOMAIN ms : ms[n][1] <= k /\ k < ms[n][2]
    IN  Pick(s, {k \in DOMAIN s : ~inMatch(k)})

\* regex.split(s): the pieces of s between the matches of p
split(p, s) ==
    LET ms == matches(p, s, 1)
        from(n) == IF n = 0 THEN 1 ELSE ms[n][2]
        to(n) == IF n = Len(ms) THEN Len(s) ELSE ms[n + 1][1] - 1
    IN  [n \in 1..(Len(ms) + 1) |-> SubSeq(s, from(n - 1), to(n - 1))]

RECURSIVE str_split_whitespace(_, _)
\* str.split() without a separator: runs of sep separate, no empty pieces
str_split_whitespace(s, sep) ==
    IF s = <<>> THEN <<>>
    ELSE IF s[1] = sep THEN str_split_whitespace(Tail(s), sep)
    ELSE IF \A k \in DOMAIN s : s[k] # sep THEN <<s>>
    ELSE LET k == Min({k \in DOMAIN s : s[k] = sep})
         IN  <<SubSeq(s, 1, k - 1)>>
               \o str_split_whitespace(SubSeq(s, k + 1, Len(s)), sep)

RECURSIVE str_split(_, _)
\* str.split(sep) for a one-character separator
str_split(s, sep) ==
    IF \A k \in DOMAIN s : s[k] # sep THEN <<s>>
    ELSE LET k == Min({k \in DOMAIN s : s[k] = sep})
         IN  <<SubSeq(s, 1, k - 1)>> \o str_split(SubSeq(s, k + 1, Len(s)), sep)


(***************************************************************************)
(* The pattern tables                                                      *)
(***************************************************************************)
Vowels == {"a","e","i","o","u","y"}

\* [^\.!?]
_re_count_sentences == Pat(<<One(Not({".", "!", "?"}))>>)

\* the removers without Mr\.
remove_initials_only == <<
    Pat(<<One(UpperLetters), One({"."}), One(UpperLetters), One({"."})>>) >>

\* [A-Z]\.[A-Z]\.  and  Mr\.
_re_remove_fake_sentences == <<
    Pat(<<One(UpperLetters), One({"."}), One(UpperLetters), One({"."})>>),
    Pat(Lit(<<"M","r",".">>)) >>

\* [^ ]
_re_count_words == Pat(<<One(Not({" "}))>>)

\* [^a-zA-Z0-9]
_re_letters_and_digits ==
    Pat(<<One(Not(LowerLetters \cup UpperLetters \cup Digits))>>)

_syllable_problem_words ==
    ( <<"s","i","m","i","l","e">> :> 3 ) @@
    ( <<"f","o","r","e","v","e","r">> :> 3 ) @@
    ( <<"s","h","o","r","e","l","i","n","e">> :> 2 )

\* These syllables would be counted as two but should be one
_sub_syllables == <<
    {Pat(Lit(<<"c","i","a","l">>))},
    {Pat(Lit(<<"t","i","a">>))},
    {Pat(Lit(<<"c","i","u","s">>))},
    {Pat(Lit(<<"c","i","o","u","s">>))},
    {Pat(Lit(<<"g","i","u">>))},
    {Pat(Lit(<<"i","o","n">>))},
    {Pat(Lit(<<"i","o","u">>))},
    {AtEnd(Lit(<<"s","i","a">>))},
    {AtEnd(<<AtLeast(Not({"a","e","i","u","o","y","t"}), 2)>> \o Lit(<<"e","d">>))},
    {AtEnd(<<One(Dot)>> \o Lit(<<"e","l","y">>))},
    {AtEnd(<<One({"c","g"}), Opt({"h"}), One({"e"}), Opt({"r","s","d"})>>)},
    {AtEnd(Lit(<<"r","v","e">>) \o <<Opt({"d"})>>)},
    {AtEnd(<<One(Vowels), One({"d","t"}), One({"e"}), Opt({"s"})>>)},
    {AtEnd(<<One(Vowels), One(Not({"a","e","i","o","u","y","d","t"})),
             One({"e"}), Opt({"r","s","d"})>>)},
    {AtEnd(<<One(Vowels)>> \o Lit(<<"r","s","e">>))} >>

\* These syllables would be counted as one but should be two
_add_syllables == <<
    {Pat(Lit(<<"i","a">>))},
    {Pat(Lit(<<"r","i","e","t">>))},
    {Pat(Lit(<<"d","i","e","n">>))},
    {Pat(Lit(<<"i","u">>))},
    {Pat(Lit(<<"i","o">>))},
    {Pat(Lit(<<"i","i">>))},
    {AtEnd(<<One({"a","e","i","o","u","y","m"})>> \o Lit(<<"b","l">>))},
    {Pat(<<Times({"a","e","i","o","u"}, 3)>>)},
    {AtStart(Lit(<<"m","c">>))},
    {AtEnd(Lit(<<"i","s","m">>))},
    \* ([^aeiouy])\1l$ : the same non-vowel twice, then l
    {AtEnd(Lit(<<c, c, "l">>)) : c \in Not(Vowels)},
    {Pat(<<One(Not({"l"}))>> \o Lit(<<"l","i","e","n">>))},
    {AtStart(Lit(<<"c","o","a">>) \o <<One({"d","g","l","x"}), One(Dot)>>)},
    {Pat(<<One(Not({"g","q"}))>> \o Lit(<<"u","a">>)
           \o <<One(Not({"a","u","i","e","o"}))>>)},
    {AtEnd(Lit(<<"d","n","t">>))},
    {AtEnd(Lit(<<"u","i","t","y">>))},
    \* ie(r|st)$
    {AtEnd(Lit(<<"i","e","r">>)), AtEnd(Lit(<<"i","e","s","t">>))} >>

\* the affix patterns with less$ and ers?$ tried before ly$
prefix_suffix_reordered == <<
    AtStart(Lit(<<"u","n">>)),
    AtStart(Lit(<<"f","o","r","e">>)),
    AtEnd(Lit(<<"l","e","s","s">>)),
    AtEnd(Lit(<<"e","r">>) \o <<Opt({"s"})>>),
    AtEnd(Lit(<<"l","y">>)),
    AtEnd(Lit(<<"f","u","l">>)),
    AtEnd(Lit(<<"i","n","g">>) \o <<Opt({"s"})>>) >>

\* Single syllable prefixes and suffixes
_syllable_prefix_suffix == <<
    AtStart(Lit(<<"u","n">>)),
    AtStart(Lit(<<"f","o","r","e">>)),
    AtEnd(Lit(<<"l","y">>)),
    AtEnd(Lit(<<"l","e","s","s">>)),
    AtEnd(Lit(<<"f","u","l">>)),
    AtEnd(Lit(<<"e","r">>) \o <<Opt({"s"})>>),
    AtEnd(Lit(<<"i","n","g">>) \o <<Opt({"s"})>>) >>

\* [^a-z]
_re_syllable_non_word_chars == Pat(<<One(Not(LowerLetters))>>)

\* [^aeiouy]+
_re_syllable_word_parts == Pat(<<AtLeast(Not(Vowels), 1)>>)

(***************************************************************************)
(* syllable_count, stage by stage                                          *)
(***************************************************************************)
\* lines 262-265: lowercase, then drop what is no letter or digit
cleaned(text) == sub(_re_letters_and_digits, lower(text))

\* lines 277-279, one pass of the loop: count the matches, then remove them
affix_step(st, pf) ==
    [text |-> sub(pf, st.text), count |-> st.count + findall(pf, st.text)]

RECURSIVE affix_loop(_, _)
\* lines 276-279: the loop from pattern i on
affix_loop(st, i) ==
    IF i > Len(_syllable_prefix_suffix) THEN st
    ELSE affix_loop(affix_step(st, _syllable_prefix_suffix[i]), i + 1)

\* lines 283-288: the number of non-empty pieces between consonant runs
word_part_count(text) ==
    LET word_parts == split(_re_syllable_word_parts, text)
    IN  Cardinality({n \in DOMAIN word_parts : word_parts[n] # <<>>})

\* sub_step with a decrement that stops at zero
sub_step_floored(n, re_syllable, text) ==
    IF search(re_syllable, text) /\ n > 0 THEN n - 1 ELSE n

\* lines 293-294, one pass of the loop
sub_step(n, re_syllable, text) ==
    IF search(re_syllable, text) THEN n - 1 ELSE n

\* lines 297-298, one pass of the loop
add_step(n, re_syllable, text) ==
    IF search(re_syllable, text) THEN n + 1 ELSE n

RECURSIVE sub_loop(_, _, _)
sub_loop(n, text, i) ==
    IF i > Len(_sub_syllables) THEN n
    ELSE sub_loop(sub_step(n, _sub_syllables[i], text), text, i + 1)

RECURSIVE add_loop(_, _, _)
add_loop(n, text, i) ==
    IF i > Len(_add_syllables) THEN n
    ELSE add_loop(add_step(n, _add_syllables[i], text), text, i + 1)

\* clamp left out
clamp_missing(n) == n

\* lines 300-301
clamp(n) == IF n = 0 THEN 1 ELSE n

\* syllable_count(text), the whole function
syllable_count(word) ==
    IF Len(word) = 0 THEN 0
    ELSE LET text == cleaned(word) IN
         IF text \in DOMAIN _syllable_problem_words
         THEN _syllable_problem_words[text]
         ELSE LET st == affix_loop([text |-> text, count |-> 0], 1)
                  letters == sub(_re_syllable_non_word_chars, st.text)
                  base == word_part_count(letters) + st.count
              IN  clamp(add_loop(sub_loop(base, letters, 1), letters, 1))

(***************************************************************************)
(* The counting utilities                                                  *)
(***************************************************************************)
\* a whole number as a result
Value(n) == [status |-> "ok", num |-> n, den |-> 1]
\* the quotient num / den of two Decimals, or the fault of dividing by zero
Quotient(num, den) ==
    [status |-> IF den = 0 THEN "ZeroDivisionError" ELSE "ok",
     num |-> num, den |-> den]

clean_text(text) == text

RECURSIVE remove_fake_sentences(_, _)
\* lines 157-158: the loop from remover i on
remove_fake_sentences(text, i) ==
    IF i > Len(_re_remove_fake_sentences) THEN text
    ELSE remove_fake_sentences(sub(_re_remove_fake_sentences[i], text), i + 1)

\* _count_sentences without the floor at 1
count_sentences_unfloored(text) ==
    IF Len(text) = 0 THEN 0
    ELSE Len(sub(_re_count_sentences, remove_fake_sentences(text, 1)))

_count_sentences(text) ==
    IF Len(text) = 0 THEN 0
    ELSE Max({1, Len(sub(_re_count_sentences, remove_fake_sentences(text, 1)))})

\* _count_words counting each run of spaces once
count_words_by_runs(text) ==
    IF Len(text) = 0 THEN 0
    ELSE 1 + Cardinality({k \in DOMAIN text :
                            text[k] = " " /\ (k = 1 \/ text[k - 1] # " ")})

_count_words(text) ==
    IF Len(text) = 0 THEN 0
    ELSE 1 + Len(sub(_re_count_words, text))

RECURSIVE sum_syllables(_, _)
\* sum(map(syllable_count, words)) from word i on
sum_syllables(words, i) ==
    IF i > Len(words) THEN 0
    ELSE syllable_count(words[i]) + sum_syllables(words, i + 1)

_count_syllables(text) == sum_syllables(str_split(text, " "), 1)

\* _count_complex_words with more than 3 syllables asked for
count_complex_words_over_3(text) ==
    LET words == str_split(text, " ")
        long_words == Cardinality({i \in DOMAIN words : _count_syllables(words[i]) > 3})
    IN  Quotient(long_words, Len(words))

\* Words with 3 or more syllables, over the number of words
_count_complex_words(text) ==
    LET words == str_split(text, " ")
        long_words == Cardinality({i \in DOMAIN words : _count_syllables(words[i]) >= 3})
    IN  Quotient(long_words, Len(words))

_count_letters(text) == Len(sub(_re_letters_and_digits, text))

(***************************************************************************)
(* The formulas: each computes its counts, then divides.  divisions(f, t)  *)
(* lists the divisors in the order the call evaluates them.                *)
(***************************************************************************)
Formulas == {"flesch_kincaid_reading_ease", "flesch_kincaid_grade_level",
             "gunning_fog_score", "coleman_liau_index", "smog_index",
             "automated_readability_index"}

divisions(f, t) ==
    LET text == clean_text(t)
        words == _count_words(text)
        sentences == _count_sentences(text)
        split_words == _count_complex_words(text).den
    IN  CASE f = "flesch_kincaid_reading_ease" -> <<sentences, words>>
          [] f = "flesch_kincaid_grade_level" -> <<sentences, words>>
          [] f = "gunning_fog_score" -> <<split_words, sentences, words>>
          [] f = "coleman_liau_index" -> <<words, words>>
          [] f = "smog_index" -> <<split_words, sentences>>
          [] f = "automated_readability_index" -> <<words, sentences>>

\* the divisors a call gets to: all of them, or up to the first zero
evaluated(ds) ==
    IF \E k \in DOMAIN ds : ds[k] = 0
    THEN SubSeq(ds, 1, Min({k \in DOMAIN ds : ds[k] = 0}))
    ELSE ds

\* how a formula call ends
outcome(ds) ==
    [status |-> IF \E k \in DOMAIN ds : ds[k] = 0 THEN "ZeroDivisionError" ELSE "score",
     num |-> 0, den |-> 1]

(***************************************************************************)
(* Inputs                                                                  *)
(***************************************************************************)
MaxWordLen == 4
MaxTextLen == 4
WordAlphabet == {"c", "d", "e", "l", "r", "y"}
TextAlphabet == {" ", ".", "!", "M", "r"}

Strings(A, n) == UNION {[1..k -> A] : k \in 0..n}

SampleWords == {
    <<"s","i","m","i","l","e">>,
    <<"S","I","M","I","L","E">>,
    <<"f","o","r","e","v","e","r">>,
    <<"F","o","r","e","v","e","r","!">>,
    <<"s","h","o","r","e","l","i","n","e">>,
    <<"s","h","o","r","e","-","l","i","n","e">>,
    <<"l","e","s","s","l","y">>,
    <<"l","y","l","e","s","s">>,
    <<"u","n","f","o","r","e","s","e","e","i","n","g">>,
    <<"b","e","a","u","t","i","f","u","l">>,
    <<"o","f","f","i","c","i","a","l","l","y">>,
    <<"i","n","i","t","i","a","t","i","o","n">>,
    <<"i","o","n","i","z","a","t","i","o","n">>,
    <<"o","n","l","y","1">>,
    <<"7">>,
    <<".">>,
    <<"?","!">>,
    <<"-","-","-">>,
    <<"'","e","r",".">> }

SampleTexts == {
    <<"M","r","."," ","S","m","i","t","h"," ","w","e","n","t"," ","t","o"," ",
      "U",".","K","."," ","t","o","d","a","y",".">>,
    <<"T","h","e"," ","c","a","t"," ","s","a","t",".">>,
    <<"a"," "," ","b">>,
    <<"f","o","r","e","v","e","r"," ","s","i","m","i","l","e"," ","a","?">>,
    <<"A",".","B",".","C",".","!">>,
    <<"M",".","M","r",".","M",".","!">> }

Words == Strings(WordAlphabet, MaxWordLen) \cup SampleWords
Texts == Strings(TextAlphabet, MaxTextLen) \cup SampleTexts

(***************************************************************************)
(* State                                                                   *)
(***************************************************************************)
VARIABLES
    fn,                    \* the function called last
    arg,                   \* its argument
    ret,                   \* its result, once it has returned
    divisors,              \* the divisors a formula call evaluated
    pc,                    \* where the call of syllable_count stands
    text,                  \* syllable_count's local text
    prefix_suffix_count,   \* syllable_count's local prefix_suffix_count
    count,                 \* syllable_count's local of the same name
    idx                    \* the pattern the loop at pc tries next

vars == <<fn, arg, ret, divisors, pc, text, prefix_suffix_count, count, idx>>
locals == <<pc, text, prefix_suffix_count, count, idx>>

NoResult == [status |-> "none", num |-> 0, den |-> 1]

(***************************************************************************)
(* syllable_count, step by step, on a word the caller passes               *)
(***************************************************************************)
InitSyllable ==
    /\ fn = "syllable_count"
    /\ arg \in Words
    /\ ret = NoResult
    /\ divisors = <<>>
    /\ pc = "entry"
    /\ text = arg
    /\ prefix_suffix_count = 0
    /\ count = 0
    /\ idx = 0

\* line 259
ReturnIfEmpty ==
    /\ pc = "entry"
    /\ IF Len(text) = 0
       THEN ret' = Value(0) /\ pc' = "done"
       ELSE ret' = ret /\ pc' = "clean"
    /\ UNCHANGED <<fn, arg, divisors, text, prefix_suffix_count, count, idx>>

\* lines 262-267
Clean ==
    /\ pc = "clean"
    /\ text' = cleaned(text)
    /\ count' = 0
    /\ pc' = "lookup"
    /\ UNCHANGED <<fn, arg, ret, divisors, prefix_suffix_count, idx>>

\* the lookup made on the word as passed, not on the cleaned word
Lookup_uncleaned ==
    /\ pc = "lookup"
    /\ IF arg \in DOMAIN _syllable_problem_words
       THEN /\ ret' = Value(_syllable_problem_words[arg])
            /\ pc' = "done"
            /\ UNCHANGED <<prefix_suffix_count, idx>>
       ELSE /\ prefix_suffix_count' = 0
            /\ idx' = 1
            /\ pc' = "affix"
            /\ ret' = ret
    /\ UNCHANGED <<fn, arg, divisors, text, count>>

\* lines 271-276
Lookup ==
    /\ pc = "lookup"
    /\ IF text \in DOMAIN _syllable_problem_words
       THEN /\ ret' = Value(_syllable_problem_words[text])
            /\ pc' = "done"
            /\ UNCHANGED <<prefix_suffix_count, idx>>
       ELSE /\ prefix_suffix_count' = 0
            /\ idx' = 1
            /\ pc' = "affix"
            /\ ret' = ret
    /\ UNCHANGED <<fn, arg, divisors, text, count>>

\* lines 277-279, one pass
StripAffix ==
    /\ pc = "affix"
    /\ LET st == affix_step([text |-> text, count |-> prefix_suffix_count],
                            _syllable_prefix_suffix[idx])
       IN  /\ text' = st.text
           /\ prefix_suffix_count' = st.count
    /\ IF idx < Len(_syllable_prefix_suffix)
       THEN idx' = idx + 1 /\ pc' = pc
       ELSE idx' = 0 /\ pc' = "parts"
    /\ UNCHANGED <<fn, arg, ret, divisors, count>>

\* lines 282-291
CountParts ==
    /\ pc = "parts"
    /\ text' = sub(_re_syllable_non_word_chars, text)
    /\ count' = word_part_count(text') + prefix_suffix_count
    /\ idx' = 1
    /\ pc' = "sub"
    /\ UNCHANGED <<fn, arg, ret, divisors, prefix_suffix_count>>

\* lines 292-294, one pass
Subtract ==
    /\ pc = "sub"
    /\ count' = sub_step(count, _sub_syllables[idx], text)
    /\ IF idx < Len(_sub_syllables)
       THEN idx' = idx + 1 /\ pc' = pc
       ELSE idx' = 1 /\ pc' = "add"
    /\ UNCHANGED <<fn, arg, ret, divisors, text, prefix_suffix_count>>

\* lines 296-298, one pass
Add ==
    /\ pc = "add"
    /\ count' = add_step(count, _add_syllables[idx], text)
    /\ IF idx < Len(_add_syllables)
       THEN idx' = idx + 1 /\ pc' = pc
       ELSE idx' = 0 /\ pc' = "clamp"
    /\ UNCHANGED <<fn, arg, ret, divisors, text, prefix_suffix_count>>

\* lines 300-303
ClampAndReturn ==
    /\ pc = "clamp"
    /\ count' = clamp(count)
    /\ ret' = Value(count')
    /\ pc' = "done"
    /\ UNCHANGED <<fn, arg, divisors, text, prefix_suffix_count, idx>>

NextSyllable ==
    \/ ReturnIfEmpty
    \/ Clean
    \/ Lookup
    \/ StripAffix
    \/ CountParts
    \/ Subtract
    \/ Add
    \/ ClampAndReturn

SpecSyllable == InitSyllable /\ [][NextSyllable]_vars

(***************************************************************************)
(* The counting utilities and the formulas, each call one step, on a text  *)
(* the caller passes                                                       *)
(***************************************************************************)
InitText ==
    /\ fn = "none"
    /\ arg \in Texts
    /\ ret = NoResult
    /\ divisors = <<>>
    /\ pc = "idle"
    /\ text = <<>>
    /\ prefix_suffix_count = 0
    /\ count = 0
    /\ idx = 0

\* a call returns: the model follows one call on each text
Returns(f, r, ds) ==
    /\ fn = "none"
    /\ fn' = f
    /\ ret' = r
    /\ divisors' = ds
    /\ UNCHANGED <<arg, locals>>

Call_count_words ==
    Returns("_count_words", Value(_count_words(arg)), <<>>)

Call_count_sentences ==
    Returns("_count_sentences", Value(_count_sentences(arg)), <<>>)

Call_count_letters ==
    Returns("_count_letters", Value(_count_letters(arg)), <<>>)

Call_count_syllables ==
    Returns("_count_syllables", Value(_count_syllables(arg)), <<>>)

Call_count_complex_words ==
    LET r == _count_complex_words(arg)
    IN  Returns("_count_complex_words", r, <<r.den>>)

Call_formula ==
    \E f \in Formulas :
        LET ds == divisions(f, arg)
        IN  Returns(f, outcome(ds), evaluated(ds))

\* line 172
Call_average_words_per_sentence ==
    Returns("average_words_per_sentence",
            [status |-> "Exception", num |-> 0, den |-> 1], <<>>)

NextText ==
    \/ Call_count_words
    \/ Call_count_sentences
    \/ Call_count_letters
    \/ Call_count_syllables
    \/ Call_count_complex_words
    \/ Call_formula
    \/ Call_average_words_per_sentence

SpecText == InitText /\ [][NextText]_vars

(***************************************************************************)
(* Properties                                                              *)
(***************************************************************************)
Alnum == LowerLetters \cup UpperLetters \cup Digits
Terminators == {".", "!", "?"}

\* how many characters of s are in S
Count(s, S) == Cardinality({k \in DOMAIN s : s[k] \in S})

\* the word lowercased, without what is no ASCII letter or digit
AlnumLower(w) == lower(Pick(w, {k \in DOMAIN w : w[k] \in Alnum}))

OnlySpaces(t) == \A k \in DOMAIN t : t[k] = " "

Simile == <<"s","i","m","i","l","e">>
Forever == <<"f","o","r","e","v","e","r">>
Shoreline == <<"s","h","o","r","e","l","i","n","e">>

\* C1: for every non-empty input string, syllable_count returns at least 1
C1_AtLeastOne ==
    (pc = "done" /\ Len(arg) > 0) => ret.num >= 1

C3_DivisorsEveryText ==
    fn \in Formulas =>
        /\ \A k \in DOMAIN divisors : divisors[k] >= 1
        /\ ret.status = "score"

\* C3, amended: for every non-empty text, every divisor a formula uses is at
\* least 1 and the formula ends with a score
C3_DivisorsNonEmptyText ==
    (fn \in Formulas /\ Len(arg) > 0) =>
        /\ \A k \in DOMAIN divisors : divisors[k] >= 1
        /\ ret.status = "score"

C3_Witness ==
    /\ fn \in Formulas
    /\ Len(arg) > 0
    /\ Count(arg, Terminators) = 0
    /\ ret.status = "score"
    /\ \E k \in DOMAIN divisors : divisors[k] = 1

\* C4: _count_words is 0 for the empty text and 1 + the number of space
\* characters otherwise, each space of a run counted; "a  b" gives 3
C4_CountWords ==
    fn = "_count_words" =>
        /\ ret.num = IF Len(arg) = 0 THEN 0 ELSE 1 + Count(arg, {" "})
        /\ (Len(arg) > 0 => ret.num >= 1)
        /\ (arg = <<"a"," "," ","b">> => ret.num = 3)

C4_Witness ==
    fn = "_count_words" /\ arg = <<"a"," "," ","b">> /\ ret.num = 3

RECURSIVE DropInitials(_)
\* t without uppercase-letter '.' uppercase-letter '.', taken left to right
DropInitials(t) ==
    IF t = <<>> THEN <<>>
    ELSE IF /\ Len(t) >= 4
            /\ t[1] \in UpperLetters /\ t[2] = "."
            /\ t[3] \in UpperLetters /\ t[4] = "."
         THEN DropInitials(SubSeq(t, 5, Len(t)))
         ELSE <<t[1]>> \o DropInitials(Tail(t))

RECURSIVE DropMr(_)
\* t without "Mr."
DropMr(t) ==
    IF t = <<>> THEN <<>>
    ELSE IF Len(t) >= 3 /\ t[1] = "M" /\ t[2] = "r" /\ t[3] = "."
         THEN DropMr(SubSeq(t, 4, Len(t)))
         ELSE <<t[1]>> \o DropMr(Tail(t))

\* the places where "Mr." stands in t
MrAt(t) ==
    {k \in 1..(Len(t) - 2) : t[k] = "M" /\ t[k + 1] = "r" /\ t[k + 2] = "."}

MrSmith ==
    <<"M","r","."," ","S","m","i","t","h"," ","w","e","n","t"," ","t","o"," ",
      "U",".","K","."," ","t","o","d","a","y",".">>

C6_ExceptionTable ==
    AlnumLower(arg) \in {Simile, Forever, Shoreline} =>
        /\ pc \in {"entry", "clean", "lookup", "done"}
        /\ prefix_suffix_count = 0
        /\ pc = "done" =>
             /\ text = AlnumLower(arg)
             /\ ret.num = CASE AlnumLower(arg) = Simile -> 3
                            [] AlnumLower(arg) = Forever -> 3
                            [] AlnumLower(arg) = Shoreline -> 2

C6_Witness ==
    /\ pc = "done"
    /\ arg = <<"F","o","r","e","v","e","r","!">>
    /\ ret.num = 3

\* C7, as stated: _count_complex_words divides by zero on a text of spaces
C7_SpacesDivideByZero ==
    (fn = "_count_complex_words" /\ Len(arg) > 0 /\ OnlySpaces(arg)) =>
        ret.status = "ZeroDivisionError"

\* C7, amended: _count_complex_words never divides by zero; a text of n
\* spaces (n >= 0) splits into n + 1 empty words and gives 0 / (n + 1)
C7_NeverDividesByZero ==
    fn = "_count_complex_words" =>
        /\ ret.status = "ok"
        /\ ret.den >= 1
        /\ OnlySpaces(arg) => (ret.num = 0 /\ ret.den = Len(arg) + 1)

C7_Witness ==
    /\ fn = "_count_complex_words"
    /\ Len(arg) > 0
    /\ OnlySpaces(arg)
    /\ ret.status = "ok"
    /\ ret.den = Len(arg) + 1

\* C8: for a non-empty text, _count_complex_words is the number of the
\* space-separated tokens with 3 or more syllables over _count_words(text);
\* the number of tokens is _count_words(text); the ratio is within 0..1
C8_ComplexWordRatio ==
    (fn = "_count_complex_words" /\ Len(arg) > 0) =>
        LET tokens == str_split(arg, " ")
        IN  /\ ret.num = Cardinality({k \in DOMAIN tokens :
                                        syllable_count(tokens[k]) >= 3})
            /\ Len(tokens) = _count_words(arg)
            /\ ret.den = _count_words(arg)
            /\ 0 <= ret.num /\ ret.num <= ret.den

C8_Witness ==
    fn = "_count_complex_words" /\ ret.num >= 1 /\ ret.num < ret.den

\* the affixes in the order of the source: whether a prefix, and the
\* spellings, longest first
Affixes == <<
    [prefix |-> TRUE,  spellings |-> <<<<"u","n">>>>],
    [prefix |-> TRUE,  spellings |-> <<<<"f","o","r","e">>>>],
    [prefix |-> FALSE, spellings |-> <<<<"l","y">>>>],
    [prefix |-> FALSE, spellings |-> <<<<"l","e","s","s">>>>],
    [prefix |-> FALSE, spellings |-> <<<<"f","u","l">>>>],
    [prefix |-> FALSE, spellings |-> <<<<"e","r","s">>, <<"e","r">>>>],
    [prefix |-> FALSE, spellings |-> <<<<"i","n","g","s">>, <<"i","n","g">>>>] >>

StartsWith(w, a) == Len(w) >= Len(a) /\ SubSeq(w, 1, Len(a)) = a
EndsWith(w, a) == Len(w) >= Len(a) /\ SubSeq(w, Len(w) - Len(a) + 1, Len(w)) = a

\* one affix tried once on st.text
StripOne(st, af) ==
    LET has(a) == IF af.prefix THEN StartsWith(st.text, a) ELSE EndsWith(st.text, a)
        found == {n \in DOMAIN af.spellings : has(af.spellings[n])}
    IN  IF found = {} THEN st
        ELSE LET a == af.spellings[Min(found)]
             IN  [text |-> IF af.prefix
                           THEN SubSeq(st.text, Len(a) + 1, Len(st.text))
                           ELSE SubSeq(st.text, 1, Len(st.text) - Len(a)),
                  count |-> st.count + 1]

RECURSIVE AfterAffixes(_, _)
\* the word and the affix count once the first n affixes have been tried,
\* each once, in order, on what the earlier ones left
AfterAffixes(w, n) ==
    IF n = 0 THEN [text |-> w, count |-> 0]
    ELSE StripOne(AfterAffixes(w, n - 1), Affixes[n])

Lessly == <<"l","e","s","s","l","y">>
Lyless == <<"l","y","l","e","s","s">>

\* C9: the seven affixes are tried in the fixed order, each once, on the word
\* as the earlier ones left it; each match is counted and removed before the
\* next is tried; "lessly" counts 2, "lyless" counts 1 and leaves "ly"
C9_AffixOrder ==
    /\ pc = "affix" =>
         [text |-> text, count |-> prefix_suffix_count]
             = AfterAffixes(AlnumLower(arg), idx - 1)
    /\ pc = "parts" =>
         /\ [text |-> text, count |-> prefix_suffix_count]
                = AfterAffixes(AlnumLower(arg), Len(Affixes))
         /\ arg = Lessly => (prefix_suffix_count = 2 /\ text = <<>>)
         /\ arg = Lyless => (prefix_suffix_count = 1 /\ text = <<"l","y">>)

C9_Witness ==
    /\ pc = "parts"
    /\ prefix_suffix_count = 1
    /\ EndsWith(text, <<"l","y">>)
    /\ ~EndsWith(arg, <<"l","y">>)

\* the vowel clusters of t: the places where a run of vowels begins
VowelClusters(t) ==
    {k \in DOMAIN t : t[k] \in Vowels /\ (k = 1 \/ t[k - 1] \notin Vowels)}

SubMatched(t) == {i \in DOMAIN _sub_syllables : search(_sub_syllables[i], t)}
AddMatched(t) == {i \in DOMAIN _add_syllables : search(_add_syllables[i], t)}

\* C10: before the clamp, the count is the number of vowel clusters of the
\* stripped word + the affix count - the number of subtractive patterns that
\* match it + the number of additive patterns that match it; every pattern is
\* tried, on the same word, and counts 1 however often it matches
C10_LinearScore ==
    pc = "clamp" =>
        count = Cardinality(VowelClusters(text)) + prefix_suffix_count
                  - Cardinality(SubMatched(text))
                  + Cardinality(AddMatched(text))

C10_Witness ==
    /\ pc = "clamp"
    /\ prefix_suffix_count >= 1
    /\ Cardinality(SubMatched(text)) >= 1
    /\ Cardinality(AddMatched(text)) >= 1
    /\ count = Cardinality(VowelClusters(text)) + prefix_suffix_count

====
